---- MODULE Spec2Model ----
(***************************************************************************)
(* Verification model of the biokb_chebi pipeline:                         *)
(*   relational ingestion (db/importer.py DatabaseImporter and             *)
(*   db/manager.py DbManager), triple generation (rdf/turtle.py) and the   *)
(*   graph import (rdf/neo4j_importer.py).                                 *)
(*                                                                         *)
(* SpecIngest : the chunked relational loaders.                            *)
(* SpecRdf    : the Triple Builder and the Graph Loader on a graph store.  *)
(***************************************************************************)
EXTENDS Integers, Sequences, FiniteSets, TLC

\* ------------------------------------------------------------------------
\* Bounds of the model.
\* ------------------------------------------------------------------------
\* compound ids of a source release are 1..MaxCompoundId
MaxCompoundId == 2
\* data rows of a staged file that carries compound_id
MaxRows == 2
\* data rows of the staged relation file
MaxRelRows == 1
\* rows per chunk handed out by the chunked reader (chunksize=100000 in the
\* code, scaled to the size of the staged files of the model)
chunksize == 1
\* ingestion runs on the same staged files
MaxIngestRuns == 2
\* files missing from a staging directory that is not empty
MaxAbsent == 1

NULL == "NULL"

\* ------------------------------------------------------------------------
\* Relational ingestion
\* ------------------------------------------------------------------------
VARIABLES
    loader,        \* "DatabaseImporter" | "DbManager": the class that runs
    fkEnforced,    \* the engine enforces FOREIGN KEY constraints on insert
    staged,        \* staged source files: file name -> sequence of rows
    db,            \* relational store: table name -> sequence of rows
    inserted,      \* insert_data's `inserted` dict: table name -> count
    df_compound_ids, \* DatabaseImporter: ids read from the compound file
    tblIdx,        \* position of the table loop in table_file_dict
    opened,        \* the chunk reader of the current table is open
    pos,           \* data rows of the current file already handed out
    ipc,           \* "idle" | "insert" | "done" | "failed"
    runs           \* ingestion runs started

ingestVars == <<loader, fkEnforced, staged, db, inserted, df_compound_ids,
                tblIdx, opened, pos, ipc, runs>>

\* the Source Fetcher (download_data / __download_data)
VARIABLES
    dir,            \* staging directory: file name -> "absent" | "old" | "new" | "partial"
    force_download, \* import_data's force_download / DatabaseImporter.redownload
    keep_files,     \* import_data's keep_files
    fidx,           \* position of the file loop in table_file_dict.values()
    ftp,            \* DatabaseImporter: the FTP client of this call is connected
    requested,      \* files a download was issued for in this call
    error           \* the file whose download raised in this call, or NoFile

fetchVars == <<dir, force_download, keep_files, fidx, ftp, requested, error>>

\* the Triple Builder and the Graph Loader
VARIABLES
    snap,          \* the relational snapshot the Triple Builder reads
    ttls_folder,   \* TurtleCreator.__ttls_folder: [exists, files: name -> triples]
    zip,           \* the archive <ttls folder>.zip: [exists, files: name -> triples]
    tpc,           \* Triple Builder: index of the next create method, 0 idle
    store,         \* graph store: [nodes: uri -> [n, labels], rels: set]
    constraints,   \* names of the uniqueness constraints of the graph store
    constraintError, \* the constraint setup raised an error
    gpc,           \* Graph Loader position
    zipped_ttls_path,       \* Neo4jImporter.__zipped_ttls_path
    delete_existing_graph,  \* argument of import_ttls
    pending,       \* turtle_file_names the document loop has not yet imported
    netlog,        \* what this Neo4jImporter has sent over the network
    resume,        \* store and archive at the start of the document loop of
                   \* the first of a series of runs on one archive
    failures,      \* document imports that raised so far
    setups,        \* calls of the constraint setup
    builds, loads, releases

rdfVars == <<snap, ttls_folder, zip, tpc, store, constraints, constraintError, gpc,
             zipped_ttls_path, delete_existing_graph, pending, netlog, resume,
             setups, failures, builds, loads, releases>>

\* the Graph Loader of neo4j_importer.py, which extracts the archive
VARIABLES
    importer,        \* its Neo4jImporter: [is_url, delete_existing_graph]
    archive,         \* names of the documents in the archive at path_or_url
    turtles_folder,  \* the directory self.turtles_folder: [exists, files]
    ttl_files,       \* documents the parse loop has not parsed yet
    neo4j_db,        \* names of the documents the graph store holds
    lpc,             \* position in import_ttls
    lruns            \* calls of import_ttls so far

legacyVars == <<importer, archive, turtles_folder, ttl_files, neo4j_db, lpc, lruns>>

\* the callers: the engine handed to a relational loader, and import_all
VARIABLES
    engine,             \* what the caller passes as engine: a dialect name,
                        \* or something that is not an Engine
    ttl_export_folder,  \* argument of import_all, << >> when not given
    zips,               \* paths of the archives that exist
    path_to_zip_file,   \* where the Triple Builder wrote its archive
    path_or_url,        \* the path import_all hands to the Graph Loader
    ppc                 \* position in import_all

callVars == <<engine, ttl_export_folder, zips, path_to_zip_file, path_or_url, ppc>>

CompoundTable == "chebi_compound"
RelationTable == "chebi_relation"
InchiTable    == "chebi_inchi"

\* DbManager.table_file_dict, in insertion order
DbManagerTablesMutOrder ==
    << "chebi_status", "chebi_source", "chebi_relation_type",
       "chebi_structure", "chebi_compound", "chebi_chemical_data",
       "chebi_comment", "chebi_database_accession", "chebi_name",
       "chebi_relation", "chebi_reference" >>

DbManagerTables ==
    << "chebi_status", "chebi_source", "chebi_relation_type",
       "chebi_compound", "chebi_structure", "chebi_chemical_data",
       "chebi_comment", "chebi_database_accession", "chebi_name",
       "chebi_relation", "chebi_reference" >>

\* DatabaseImporter.table_file_dict, in insertion order
DatabaseImporterTables ==
    << "chebi_compound", "chebi_chemical_data", "chebi_comment",
       "chebi_database_accession", "chebi_inchi", "chebi_name",
       "chebi_relation", "chebi_reference" >>

LookupTables == {"chebi_status", "chebi_source", "chebi_relation_type"}

AllTables == {DbManagerTables[i] : i \in DOMAIN DbManagerTables}
                 \cup {DatabaseImporterTables[i] : i \in DOMAIN DatabaseImporterTables}

\* tables whose rows carry a foreign key to chebi_compound (db/models.py)
DependentTables == AllTables \ (LookupTables \cup {CompoundTable})

table_file_dict(l) ==
    IF l = "DbManager" THEN DbManagerTables ELSE DatabaseImporterTables

\* the file a table is read from; one file per table
FileOf(t) == t

CompoundIds == 1..MaxCompoundId

\* the columns of a data frame: the fields of its rows
Columns(row) == DOMAIN row

\* ---- staged files --------------------------------------------------------
\* compound file: distinct ids (the primary key), in increasing order
RECURSIVE IdsAscending(_)
IdsAscending(S) ==
    IF S = {} THEN << >>
    ELSE LET m == CHOOSE x \in S : \A y \in S : x <= y
         IN  << m >> \o IdsAscending(S \ {m})

CompoundFile(S) ==
    LET ids == IdsAscending(S)
    IN  [i \in DOMAIN ids |-> [id |-> ids[i]]]

SeqsUpTo(S, n) == UNION {[1..k -> S] : k \in 0..n}

\* a file whose rows reference a compound: line id and the foreign key
CidFile(fks) == [i \in DOMAIN fks |-> [id |-> i, compound_id |-> fks[i]]]
\* chebiId_inchi.tsv names its foreign key CHEBI_ID and has no id column
InchiFile(fks) == [i \in DOMAIN fks |-> [chebi_id |-> fks[i]]]
RelFile(prs) ==
    [i \in DOMAIN prs |-> [id |-> i, init_id |-> prs[i][1], final_id |-> prs[i][2]]]
LookupFile == << [code |-> "C"] >>

StagedFiles(S, fks, prs) ==
    [t \in AllTables |->
        IF t = CompoundTable THEN CompoundFile(S)
        ELSE IF t \in LookupTables THEN LookupFile
        ELSE IF t = RelationTable THEN RelFile(prs)
        ELSE IF t = InchiTable THEN InchiFile(fks)
        ELSE CidFile(fks)]

EmptyDb == [t \in AllTables |-> << >>]

\* the empty `inserted` dict
NoCounts == [t \in {} |-> 0]

\* ---- loader steps ---------------------------------------------------------
Min(a, b) == IF a <= b THEN a ELSE b

\* ids of the rows of the Compound table
CompoundIdsInDb == {db[CompoundTable][i].id : i \in DOMAIN db[CompoundTable]}

\* pandas: left.set_index(col).join(df.set_index(col), how="inner").reset_index()
\* with the compound ids as the left frame: for each left id in order, the
\* rows of df whose col equals it
RECURSIVE InnerJoin(_, _, _)
InnerJoin(ids, df, col) ==
    IF ids = << >> THEN << >>
    ELSE SelectSeq(df, LAMBDA r : r[col] = Head(ids)) \o InnerJoin(Tail(ids), df, col)

\* df.rename(columns={"chebi_id": "compound_id"})
RenameChebiId(row) ==
    [c \in (Columns(row) \ {"chebi_id"}) \cup {"compound_id"} |->
        IF c = "compound_id" THEN row["chebi_id"] ELSE row[c]]

\* one filter step of DatabaseImporter.insert_data: applied when the column
\* is among the frame's columns
FilterOn(ids, df, col) ==
    IF df # << >> /\ col \in Columns(df[1]) THEN InnerJoin(ids, df, col) ELSE df

\* the chunk as DatabaseImporter appends it
ImporterFrame(ids, t, chunk) ==
    LET df0 == IF t = InchiTable
               THEN [i \in DOMAIN chunk |-> RenameChebiId(chunk[i])]
               ELSE chunk
        df1 == FilterOn(ids, df0, "compound_id")
        df2 == FilterOn(ids, df1, "init_id")
    IN  FilterOn(ids, df2, "final_id")

\* the chunk as DbManager appends it: as read
ManagerFrame(t, chunk) == chunk

Frame(t, chunk) ==
    IF loader = "DatabaseImporter" THEN ImporterFrame(df_compound_ids, t, chunk)
    ELSE ManagerFrame(t, chunk)

FkColumns == {"compound_id", "init_id", "final_id"}

\* a row one of whose foreign keys matches no row of the Compound table
Dangling(row) ==
    \E c \in FkColumns \cap Columns(row) : row[c] \notin CompoundIdsInDb

\* df.to_sql(..., if_exists="append") raises IntegrityError when the engine
\* enforces the FOREIGN KEY constraints of db/models.py and a row dangles
ToSqlRaises(df) == fkEnforced /\ \E i \in DOMAIN df : Dangling(df[i])

\* Base.metadata.create_all alone: the tables keep their rows
create_all(d) == d

\* Base.metadata.drop_all(engine); Base.metadata.create_all(engine)
drop_all_create_all(d) == EmptyDb

\* df.to_sql(..., if_exists="replace"): the table is the frame
to_sql_replace(rows, df) == df

\* df.to_sql(table_name, engine, index=False, if_exists="append")
to_sql_append(rows, df) == rows \o df

\* inserted[table_name] = df.shape[0]
Overwrite(count, n) == n

\* inserted[table_name] += df.shape[0]
Accumulate(count, n) == count + n

CurTable == table_file_dict(loader)[tblIdx]
CurFile == staged[FileOf(CurTable)]

\* ---- Source Fetcher --------------------------------------------------------
NoFile == "NoFile"

\* table_file_dict.values(): the files of the loader, in loop order
FetchFiles(l) == [i \in DOMAIN table_file_dict(l) |-> FileOf(table_file_dict(l)[i])]

\* os.path.exists(path_to_download)
exists(d, f) == d[f] # "absent"

\* a download that honours only the absence of the file
MustDownloadIfAbsent(ex, force) == ~ex

\* not (os.path.exists(path_to_download) and not force_download)
MustDownload(ex, force) == ~ex \/ force

\* where a download can raise: before the local file is opened for writing
\* (requests.get / raise_for_status, or get_ftp_client of the first
\* download of a call), or after (iter_content, retrbinary)
FailurePoints(l, connected) ==
    IF l = "DbManager" THEN {"before_open", "after_open"}
    ELSE IF connected THEN {"after_open"}
    ELSE {"before_open", "after_open"}

\* open(path_to_download, "wb") truncates the file; what was written before
\* the error stays
AfterFailure(d, f, point) ==
    IF point = "after_open" THEN [d EXCEPT ![f] = "partial"] ELSE d

\* the error is logged and the loop goes on with the next file
log_and_continue(i) == [ipc |-> "download", fidx |-> i + 1]

\* the exception leaves the file loop and import_data / import_db
\* (raise Exception(e); no handler in DbManager)
raise_Exception(i) == [ipc |-> "download_failed", fidx |-> i]

\* what a caller may pass as engine: engines of two dialects and an object
\* that is no SQLAlchemy Engine
Engines == {"mysql", "sqlite", "not_an_engine"}

\* isinstance(engine, Engine)
isinstance_Engine(e) == e # "not_an_engine"

\* DatabaseImporter.check_is_mysql_or_mariadb does not raise
check_is_mysql_or_mariadb(e) ==
    isinstance_Engine(e) /\ e \in {"mysql", "mariadb"}

\* the constructor of loader l returns: DbManager.__init__ has no check
Constructed(l, e) == l = "DatabaseImporter" => check_is_mysql_or_mariadb(e)

\* DatabaseImporter.__init__ raises in check_is_mysql_or_mariadb
DatabaseImporter_init_raises ==
    /\ ipc = "idle"
    /\ ~Constructed(loader, engine)
    /\ ipc' = "init_failed"
    /\ UNCHANGED <<rdfVars, legacyVars, callVars, fetchVars, loader, fkEnforced, staged,
                   db, inserted, df_compound_ids, tblIdx, opened, pos, runs>>

\* import_data(force_download, keep_files) / import_db(): the call starts
\* with the file loop of the Source Fetcher
import_data ==
    /\ ipc = "idle"
    /\ Constructed(loader, engine)
    /\ runs < MaxIngestRuns
    /\ runs' = runs + 1
    /\ fidx' = 1
    /\ ftp' = FALSE
    /\ requested' = {}
    /\ error' = NoFile
    /\ ipc' = "download"
    /\ UNCHANGED <<rdfVars, legacyVars, callVars, dir, force_download, keep_files, loader, fkEnforced,
                   staged, db, inserted, df_compound_ids, tblIdx, opened, pos>>

\* the file exists and force_download is false: continue
download_data_skip ==
    /\ ipc = "download"
    /\ fidx <= Len(FetchFiles(loader))
    /\ ~MustDownload(exists(dir, FetchFiles(loader)[fidx]), force_download)
    /\ fidx' = fidx + 1
    /\ UNCHANGED <<rdfVars, legacyVars, callVars, dir, force_download, keep_files, ftp, requested, error,
                   ingestVars>>

\* the file is streamed to path_to_download
download_data_file ==
    /\ ipc = "download"
    /\ fidx <= Len(FetchFiles(loader))
    /\ LET f == FetchFiles(loader)[fidx]
       IN  /\ MustDownload(exists(dir, f), force_download)
           /\ dir' = [dir EXCEPT ![f] = "new"]
           /\ requested' = requested \cup {f}
    /\ ftp' = (loader = "DatabaseImporter")
    /\ fidx' = fidx + 1
    /\ UNCHANGED <<rdfVars, legacyVars, callVars, force_download, keep_files, error, ingestVars>>

\* the transport raises while the file is downloaded
download_data_error ==
    /\ ipc = "download"
    /\ fidx <= Len(FetchFiles(loader))
    /\ LET f == FetchFiles(loader)[fidx]
           r == raise_Exception(fidx)
       IN  /\ MustDownload(exists(dir, f), force_download)
           /\ \E point \in FailurePoints(loader, ftp) :
                  dir' = AfterFailure(dir, f, point)
           /\ requested' = requested \cup {f}
           /\ error' = f
           /\ ipc' = r.ipc
           /\ fidx' = r.fidx
    /\ UNCHANGED <<rdfVars, legacyVars, callVars, force_download, keep_files, ftp, loader, fkEnforced,
                   staged, db, inserted, df_compound_ids, tblIdx, opened, pos, runs>>

\* the file loop is over (ftp.quit() in DatabaseImporter)
download_data_return ==
    /\ ipc = "download"
    /\ fidx > Len(FetchFiles(loader))
    /\ ftp' = FALSE
    /\ ipc' = "fetched"
    /\ UNCHANGED <<rdfVars, legacyVars, callVars, dir, force_download, keep_files, fidx, requested, error,
                   loader, fkEnforced, staged, db, inserted, df_compound_ids,
                   tblIdx, opened, pos, runs>>

\* Base.metadata.drop_all + create_all
create_empty_db ==
    /\ ipc = "fetched"
    /\ isinstance_Engine(engine)
    /\ db' = drop_all_create_all(db)
    /\ ipc' = "created"
    /\ UNCHANGED <<rdfVars, legacyVars, callVars, fetchVars, loader, fkEnforced, staged, inserted, df_compound_ids,
                   tblIdx, opened, pos, runs>>

\* Base.metadata.drop_all(engine) raises on an object that is no Engine
create_empty_db_raises ==
    /\ ipc = "fetched"
    /\ ~isinstance_Engine(engine)
    /\ ipc' = "failed"
    /\ UNCHANGED <<rdfVars, legacyVars, callVars, fetchVars, loader, fkEnforced, staged,
                   db, inserted, df_compound_ids, tblIdx, opened, pos, runs>>

\* insert_data up to the table loop: inserted = {} and, in DatabaseImporter,
\* the ids of the compound file
insert_data_begin ==
    /\ ipc = "created"
    /\ inserted' = NoCounts
    /\ df_compound_ids' =
          IF loader = "DatabaseImporter"
          THEN [i \in DOMAIN staged[FileOf(CompoundTable)] |->
                    staged[FileOf(CompoundTable)][i].id]
          ELSE NULL
    /\ tblIdx' = 1
    /\ opened' = FALSE
    /\ pos' = 0
    /\ ipc' = "insert"
    /\ UNCHANGED <<rdfVars, legacyVars, callVars, fetchVars, loader, fkEnforced, staged, db, runs>>

\* pd.read_csv(..., chunksize=...) and inserted[table_name] = 0
insert_data_open_table ==
    /\ ipc = "insert"
    /\ ~opened
    /\ tblIdx <= Len(table_file_dict(loader))
    /\ opened' = TRUE
    /\ pos' = 0
    /\ inserted' = (CurTable :> 0) @@ inserted
    /\ UNCHANGED <<rdfVars, legacyVars, callVars, fetchVars, loader, fkEnforced, staged, db, df_compound_ids, tblIdx,
                   ipc, runs>>

\* one iteration of `for df in dfs`: transform, append, count
insert_data_chunk ==
    /\ ipc = "insert"
    /\ opened
    /\ pos < Len(CurFile)
    /\ LET hi == Min(pos + chunksize, Len(CurFile))
           chunk == SubSeq(CurFile, pos + 1, hi)
           df == Frame(CurTable, chunk)
       IN  IF ToSqlRaises(df)
           THEN /\ ipc' = "failed"
                /\ UNCHANGED <<db, inserted, pos>>
           ELSE /\ db' = [db EXCEPT ![CurTable] = to_sql_append(@, df)]
                /\ inserted' = [inserted EXCEPT ![CurTable] = Accumulate(@, Len(df))]
                /\ pos' = hi
                /\ ipc' = ipc
    /\ UNCHANGED <<rdfVars, legacyVars, callVars, fetchVars, loader, fkEnforced, staged, df_compound_ids, tblIdx,
                   opened, runs>>

\* the chunk reader is exhausted: next table of table_file_dict
insert_data_next_table ==
    /\ ipc = "insert"
    /\ opened
    /\ pos = Len(CurFile)
    /\ opened' = FALSE
    /\ tblIdx' = tblIdx + 1
    /\ UNCHANGED <<rdfVars, legacyVars, callVars, fetchVars, loader, fkEnforced, staged, db, inserted, df_compound_ids,
                   pos, ipc, runs>>

\* return inserted
insert_data_return ==
    /\ ipc = "insert"
    /\ ~opened
    /\ tblIdx > Len(table_file_dict(loader))
    /\ ipc' = "done"
    /\ UNCHANGED <<rdfVars, legacyVars, callVars, fetchVars, loader, fkEnforced, staged, db, inserted, df_compound_ids,
                   tblIdx, opened, pos, runs>>

\* the files of the table-to-file map of loader l
FetchFileSet(l) == {FetchFiles(l)[i] : i \in DOMAIN FetchFiles(l)}

\* no file is removed
keep_all_files(d, files) == d
\* os.remove(path_to_delete) for every file of the map that exists
remove_files(d, files) ==
    [f \in DOMAIN d |-> IF f \in files THEN "absent" ELSE d[f]]

\* import_data after __insert_data: the staged files are removed unless
\* keep_files; import_db returns the counts
import_data_return ==
    /\ ipc = "done"
    /\ dir' = IF loader = "DbManager" /\ ~keep_files
              THEN remove_files(dir, FetchFileSet(loader))
              ELSE dir
    /\ ipc' = "returned"
    /\ UNCHANGED <<rdfVars, legacyVars, callVars, force_download, keep_files, fidx, ftp, requested, error,
                   loader, fkEnforced, staged, db, inserted, df_compound_ids,
                   tblIdx, opened, pos, runs>>

\* the caller has the counts or the exception; the entry point is called
\* again
import_again ==
    /\ ipc \in {"returned", "failed", "download_failed"}
    /\ runs < MaxIngestRuns
    /\ ipc' = "idle"
    /\ UNCHANGED <<rdfVars, legacyVars, callVars, fetchVars, loader, fkEnforced, staged, db, inserted, df_compound_ids,
                   tblIdx, opened, pos, runs>>

NextIngest ==
    \/ import_data
    \/ download_data_skip
    \/ download_data_return
    \/ create_empty_db
    \/ insert_data_begin
    \/ insert_data_open_table
    \/ insert_data_chunk
    \/ insert_data_next_table
    \/ insert_data_return
    \/ import_data_return
    \/ import_again

NextFetch ==
    \/ import_data
    \/ download_data_skip
    \/ download_data_file
    \/ download_data_error
    \/ download_data_return
    \/ create_empty_db
    \/ insert_data_begin
    \/ insert_data_open_table
    \/ insert_data_chunk
    \/ insert_data_next_table
    \/ insert_data_return
    \/ import_data_return
    \/ import_again

\* ---- properties of the relational ingestion ------------------------------
LoaderTables == {table_file_dict(loader)[i] : i \in DOMAIN table_file_dict(loader)}

\* the loop iteration of table t has run to its end
TableDone(t) ==
    \E i \in DOMAIN table_file_dict(loader) :
        table_file_dict(loader)[i] = t /\ i < tblIdx

\* the loop has reached table t
TableStarted(t) == t \in DOMAIN inserted

\* the rows of t's source file as they are named in the table
SourceRows(t) ==
    IF t = InchiTable /\ loader = "DatabaseImporter"
    THEN [i \in DOMAIN staged[FileOf(t)] |-> RenameChebiId(staged[FileOf(t)][i])]
    ELSE staged[FileOf(t)]

RowSet(sq) == {sq[i] : i \in DOMAIN sq}

\* C1: after an ingestion run completes every row of every dependent table
\* references a Compound id present in the Compound table; a source row
\* whose foreign key matches no ingested Compound is absent from the table
\* and is not counted in the returned per-table count.
C1_ReferentialIntegrity ==
    ipc = "done" =>
        \A t \in DependentTables \cap LoaderTables :
            /\ \A i \in DOMAIN db[t] : ~Dangling(db[t][i])
            /\ RowSet(db[t]) = {r \in RowSet(SourceRows(t)) : ~Dangling(r)}
            /\ inserted[t] = Cardinality({i \in DOMAIN SourceRows(t) :
                                             ~Dangling(SourceRows(t)[i])})

\* the Compound table holds every row of the compound file and, in
\* DatabaseImporter, the id set used by the filter has been read
CompoundLoaded ==
    /\ TableDone(CompoundTable)
    /\ db[CompoundTable] = staged[FileOf(CompoundTable)]
    /\ loader = "DatabaseImporter" =>
          df_compound_ids = [i \in DOMAIN staged[FileOf(CompoundTable)] |->
                                 staged[FileOf(CompoundTable)][i].id]

\* C2: the tables are loaded in a fixed order, lookup tables first, then
\* Compound, then the dependent tables: no chunk of a dependent table is
\* filtered or appended before the Compound table is fully loaded.
C2_CompoundBeforeDependents ==
    ipc \in {"insert", "done", "failed"} =>
        /\ \A t \in DependentTables :
              (TableStarted(t) \/ db[t] # << >>) => CompoundLoaded
        /\ TableStarted(CompoundTable) =>
              \A l \in LookupTables \cap LoaderTables : TableDone(l)

\* a chunk of a dependent table has been appended after a non-empty
\* Compound table was loaded, with lookup tables in the order
C2_Witness ==
    /\ ipc = "insert"
    /\ opened
    /\ CurTable \in DependentTables
    /\ pos > 0
    /\ db[CurTable] # << >>
    /\ db[CompoundTable] # << >>
    /\ LookupTables \cap LoaderTables # {}

\* the rows of a sequence with their multiplicities
BagOf(sq) == [r \in RowSet(sq) |-> Cardinality({i \in DOMAIN sq : sq[i] = r})]

\* the frame of t's whole source file read as one chunk
WholeFrame(t) == Frame(t, staged[FileOf(t)])

\* C11: for every table the returned inserted-row count and the rows
\* appended to the table are those of the file processed as one chunk,
\* however many chunks the reader splits the file into
C11_ChunkSizeInvariance ==
    ipc = "done" =>
        \A t \in LoaderTables :
            /\ inserted[t] = Len(WholeFrame(t))
            /\ BagOf(db[t]) = BagOf(WholeFrame(t))

\* a finished run that read a file in more than one chunk
C11_Witness ==
    /\ ipc = "done"
    /\ \E t \in LoaderTables :
          Len(staged[FileOf(t)]) > chunksize /\ Len(db[t]) > chunksize

\* every foreign key of every staged file is an id of the compound file
AllResolve ==
    \A t \in DependentTables :
        \A i \in DOMAIN staged[FileOf(t)] :
            \A c \in FkColumns \cap Columns(SourceRows(t)[i]) :
                \E j \in DOMAIN staged[FileOf(CompoundTable)] :
                    staged[FileOf(CompoundTable)][j].id = SourceRows(t)[i][c]

C13_RerunEqualsSingleRun ==
    (ipc = "done" /\ runs >= 2) =>
        \A t \in AllTables :
            BagOf(db[t]) = BagOf(IF t \in LoaderTables THEN WholeFrame(t) ELSE << >>)

C13_Witness ==
    /\ ipc = "done"
    /\ runs >= 2
    /\ \E t \in DependentTables \cap LoaderTables : db[t] # << >>

\* ------------------------------------------------------------------------
\* Triple Builder (rdf/turtle.py) and Graph Loader (rdf/neo4j_importer.py)
\* ------------------------------------------------------------------------
\* builder runs, loader runs and source releases of one behaviour
MaxBuilds == 2
MaxLoads == 2
MaxReleases == 1
MaxFailures == 1

\* ---- the relational snapshot ---------------------------------------------
\* status codes of db/models.py that the queries tell apart
StatusCodes == {"C", "E", "D"}
RelTypes == {"is_a"}
RelStatusCodes == {"C", "D"}

CompoundRow(i, st, par) ==
    [id |-> i, name |-> "water", source |-> "ChEBI", status |-> st, star |-> 3,
     definition |-> NULL, parent_id |-> par]

\* parent_id IS NULL: the nullable integer column holds no compound id
NoParent == 0

\* a parent is an earlier entry the compound was merged into
ParentChoices(i) == {NoParent} \cup {j \in CompoundIds : j < i}

CompoundTables ==
    {[i \in CompoundIds |-> CompoundRow(i, st[i], par[i])] :
        st \in [CompoundIds -> StatusCodes],
        par \in {f \in [CompoundIds -> {NoParent} \cup CompoundIds] :
                    \A i \in CompoundIds : f[i] \in ParentChoices(i)}}

\* a relation links two different compounds
RelationRows ==
    {r \in [type : RelTypes, init_id : CompoundIds, final_id : CompoundIds,
             status : RelStatusCodes] : r.init_id # r.final_id}

\* one row in each of the name, inchi, database accession and reference
\* tables, owned by compound o
NameRows(o) ==
    << [id |-> 7, name |-> "aqua", type |-> "SYNONYM", source |-> "ChEBI",
             adapted |-> "F", language |-> "en", compound_id |-> o] >>
InchiRows(o) ==
    << [compound_id |-> o, inchi |-> "InChI=1S/H2O/h1H2"] >>
AccessionRows(o) ==
    << [accession_number |-> "7732-18-5", type |-> "CAS Registry Number",
             source |-> "KEGG COMPOUND", compound_id |-> o] >>
ReferenceRows(o) ==
    << [reference_id |-> "US2008", reference_db_name |-> "Patent",
             reference_name |-> NULL, compound_id |-> o] >>

\* the compound that owns the rows of the dependent tables: the last one,
\* which may be a merged entry
Owner == MaxCompoundId

Snapshots ==
    {[chebi_compound |-> c, chebi_relation |-> r, chebi_name |-> NameRows(Owner),
      chebi_inchi |-> InchiRows(Owner),
      chebi_database_accession |-> AccessionRows(Owner),
      chebi_reference |-> ReferenceRows(Owner)] :
        c \in CompoundTables, r \in SeqsUpTo(RelationRows, MaxRelRows)}

\* ---- URIs and triples ------------------------------------------------------
\* str() of a non-negative integer: its decimal digits
Digit(d) == CASE d = 0 -> "0" [] d = 1 -> "1" [] d = 2 -> "2" [] d = 3 -> "3"
              [] d = 4 -> "4" [] d = 5 -> "5" [] d = 6 -> "6" [] d = 7 -> "7"
              [] d = 8 -> "8" [] d = 9 -> "9"
RECURSIVE Str(_)
Str(i) == IF i < 10 THEN << Digit(i) >> ELSE Str(i \div 10) \o << Digit(i % 10) >>

\* str.upper() on the relation type codes
Upper(ty) == CASE ty = "is_a" -> "IS_A"
               [] ty = "has_part" -> "HAS_PART"
               [] OTHER -> ty

\* rdkit InchiToInchiKey: the key of a valid InChI, None otherwise
InchiToInchiKey(x) ==
    IF x = "InChI=1S/H2O/h1H2" THEN "XLYOFNOQVPJJNP-UHFFFAOYSA-N" ELSE NULL

\* ns.<name>[local]: a URI is its namespace and its local name, the local
\* name a sequence of characters or words
Uri(ns, local) == [ns |-> ns, local |-> local]
\* str() of a text value or of None
StrOf(v) == IF v = NULL THEN << "None" >> ELSE << v >>
RdfType == Uri("rdf", << "type" >>)
Literal(v) == [lit |-> v]
IsLiteral(o) == "lit" \in DOMAIN o
isna(v) == v = NULL

BASIC_NODE_LABEL == "DbChEBI"

\* (subject, ns.relation[column], Literal(row[column])) for non-null columns
LiteralTriples(subject, row, columns) ==
    {<< subject, Uri("relation", << c >>), Literal(row[c]) >> :
        c \in {c \in columns : ~isna(row[c])}}

TypeTriples(subject, label) ==
    { << subject, RdfType, Uri("node", << label >>) >>,
      << subject, RdfType, Uri("node", << BASIC_NODE_LABEL >>) >> }

Rows(sq) == {sq[i] : i \in DOMAIN sq}

\* WHERE c.status in ('C', 'E') AND c.parent_id IS NULL on the compound
\* with id cid (the INNER JOIN finds none when the id matches no row)
OwnerSelected(sn, cid) ==
    /\ cid \in DOMAIN sn.chebi_compound
    /\ sn.chebi_compound[cid].status \in {"C", "E"}
    /\ sn.chebi_compound[cid].parent_id = NoParent

compound_df(sn) ==
    {sn.chebi_compound[i] : i \in {i \in DOMAIN sn.chebi_compound :
                                      OwnerSelected(sn, i)}}

CompoundsTtl(sn) ==
    UNION {TypeTriples(Uri("chebi", Str(row.id)), "Compound")
             \cup LiteralTriples(Uri("chebi", Str(row.id)), row,
                                 {"name", "source", "status", "definition"}) :
           row \in compound_df(sn)}

inchi_df(sn) ==
    {[compound_id |-> r.compound_id, inchi |-> r.inchi,
      inchikey |-> InchiToInchiKey(r.inchi)] :
        r \in {r \in Rows(sn.chebi_inchi) : OwnerSelected(sn, r.compound_id)}}

InchisTtl(sn) ==
    UNION {TypeTriples(Uri("inchi", StrOf(row.inchikey)), "InChI")
             \cup {<< Uri("chebi", Str(row.compound_id)),
                      Uri("relation", << "HAS_INCHI" >>), Uri("inchi", StrOf(row.inchikey)) >>}
             \cup LiteralTriples(Uri("inchi", StrOf(row.inchikey)), row,
                                 {"inchi", "inchikey"}) :
           row \in inchi_df(sn)}

name_df(sn) == {r \in Rows(sn.chebi_name) : OwnerSelected(sn, r.compound_id)}

NamesTtl(sn) ==
    UNION {TypeTriples(Uri("chebi_name", Str(row.id)), "Name")
             \cup {<< Uri("chebi", Str(row.compound_id)),
                      Uri("relation", << "HAS_NAME" >>), Uri("chebi_name", Str(row.id)) >>}
             \cup LiteralTriples(Uri("chebi_name", Str(row.id)), row,
                                 {"type", "source", "adapted", "language", "name"}) :
           row \in name_df(sn)}

\* GROUP BY compound_id, accession_number with the distinct sources of the
\* group (group_concat of the NOT NULL column source is never null)
cas_number_df(sn) ==
    LET sel == {r \in Rows(sn.chebi_database_accession) :
                   r.type = "CAS Registry Number" /\ OwnerSelected(sn, r.compound_id)}
    IN  {[number |-> r.accession_number, compound_id |-> r.compound_id,
          sources |-> {q.source : q \in {q \in sel :
                          q.compound_id = r.compound_id
                          /\ q.accession_number = r.accession_number}}] : r \in sel}

CasNumbersTtl(sn) ==
    UNION {TypeTriples(Uri("cas", StrOf(row.number)), "Cas")
             \cup {<< Uri("chebi", Str(row.compound_id)),
                      Uri("relation", << "HAS_CAS" >>), Uri("cas", StrOf(row.number)) >>}
             \cup LiteralTriples(Uri("cas", StrOf(row.number)), row, {"number"})
             \cup {<< Uri("cas", StrOf(row.number)), Uri("relation", << "sources" >>),
                      Literal(row.sources) >>} :
           row \in cas_number_df(sn)}

patent_df(sn) ==
    {[patent_id |-> r.reference_id, name |-> r.reference_name,
      compound_id |-> r.compound_id] :
        r \in {r \in Rows(sn.chebi_reference) :
                  r.reference_db_name = "Patent" /\ OwnerSelected(sn, r.compound_id)}}

\* the patent URI is minted with ns.cas
PatentsTtl(sn) ==
    UNION {TypeTriples(Uri("cas", StrOf(row.patent_id)), "Patent")
             \cup {<< Uri("chebi", Str(row.compound_id)),
                      Uri("relation", << "HAS_PATENT" >>), Uri("cas", StrOf(row.patent_id)) >>}
             \cup LiteralTriples(Uri("cas", StrOf(row.patent_id)), row, {"name", "patent_id"}) :
           row \in patent_df(sn)}

\* r.status in ('C','E') and c1.status in ('C','E') and c2.status in ('C','E')
chebi_compound_relation_df(sn) ==
    {r \in Rows(sn.chebi_relation) :
        /\ r.status \in {"C", "E"}
        /\ r.init_id \in DOMAIN sn.chebi_compound
        /\ r.final_id \in DOMAIN sn.chebi_compound
        /\ sn.chebi_compound[r.init_id].status \in {"C", "E"}
        /\ sn.chebi_compound[r.final_id].status \in {"C", "E"}}

\* the edge the claimed convention would write: init to final
RelationTripleInitToFinal(row) ==
    << Uri("chebi", Str(row.init_id)), Uri("relation", << Upper(row.type) >>),
       Uri("chebi", Str(row.final_id)) >>

\* graph.add((compound_2, ns.relation[str(row.type).upper()], compound_1))
RelationTriple(row) ==
    << Uri("chebi", Str(row.final_id)), Uri("relation", << Upper(row.type) >>),
       Uri("chebi", Str(row.init_id)) >>

CompoundRelationsTtl(sn) ==
    {RelationTriple(row) : row \in chebi_compound_relation_df(sn)}

\* create_all_ttls: the create methods in call order, with the file each writes
create_methods ==
    << "compound.ttl", "inchi.ttl", "name.ttl", "cas.ttl", "patent.ttl",
       "relation.ttl" >>

TtlOf(file, sn) ==
    CASE file = "compound.ttl" -> CompoundsTtl(sn)
      [] file = "inchi.ttl"    -> InchisTtl(sn)
      [] file = "name.ttl"     -> NamesTtl(sn)
      [] file = "cas.ttl"      -> CasNumbersTtl(sn)
      [] file = "patent.ttl"   -> PatentsTtl(sn)
      [] file = "relation.ttl" -> CompoundRelationsTtl(sn)

\* ---- the graph store -------------------------------------------------------
NoFiles == [f \in {} |-> {}]
Absent == [exists |-> FALSE, files |-> NoFiles]

EmptyStore == [nodes |-> [u \in {} |-> [n |-> 0, labels |-> {}]], rels |-> {}]

\* handle_vocab_uri_strategy IGNORE: a label or relationship type is the
\* local name of its URI
LocalName(u) == u.local[1]

\* the nodes a set of triples touches: every subject, and the object of
\* every edge (MERGE (from:Resource {uri}) MERGE (to:Resource {uri}))
IsEdge(t) == ~IsLiteral(t[3]) /\ t[2] # RdfType
Touched(T) == {t[1] : t \in T} \cup {t[3] : t \in {t \in T : IsEdge(t)}}

\* a node created although its uri is already there
CreateCount(n) == n + 1

\* MERGE on the uri: a node is created only when none has the uri
MergeCount(n) == IF n = 0 THEN 1 ELSE n

\* parse + commit of a set of triples into the store
CommitTriples(st, T) ==
    LET old(u) == IF u \in DOMAIN st.nodes THEN st.nodes[u]
                  ELSE [n |-> 0, labels |-> {}]
    IN  [nodes |->
            [u \in DOMAIN st.nodes \cup Touched(T) |->
                IF u \in Touched(T)
                THEN [n |-> MergeCount(old(u).n),
                      labels |-> old(u).labels \cup {"Resource"}
                                   \cup {LocalName(t[3]) :
                                           t \in {t \in T : t[1] = u /\ t[2] = RdfType}}]
                ELSE st.nodes[u]],
         rels |-> st.rels \cup {<< t[1], LocalName(t[2]), t[3] >> :
                                  t \in {t \in T : IsEdge(t)}}]

\* IN TRANSACTIONS OF 1000 ROWS, scaled to the stores explored here
RowsPerTransaction == 2

\* MATCH (n:label)
Matched(st, label) == {u \in DOMAIN st.nodes : label \in st.nodes[u].labels}

\* DETACH DELETE of the nodes D: the nodes and their relationships
DetachDelete(st, D) ==
    LET keep == DOMAIN st.nodes \ D
    IN  [nodes |-> [u \in keep |-> st.nodes[u]],
         rels |-> {r \in st.rels : r[1] \in keep /\ r[3] \in keep}]

\* one transaction over all matched rows
AllRows(S) == S
\* the rows of one inner transaction: at most RowsPerTransaction of them
Batch(S) ==
    CHOOSE B \in SUBSET S :
        Cardinality(B) = Min(RowsPerTransaction, Cardinality(S))

\* the store after each inner transaction of the delete statement
RECURSIVE PurgeTransactions(_, _)
PurgeTransactions(st, label) ==
    IF Matched(st, label) = {} THEN << >>
    ELSE LET next == DetachDelete(st, Batch(Matched(st, label)))
         IN  << next >> \o PurgeTransactions(next, label)

\* MATCH (n:label) CALL (n) { DETACH DELETE n } IN TRANSACTIONS OF 1000 ROWS,
\* consumed when the session closes
DeleteNodesWithLabel(st, label) ==
    LET txs == PurgeTransactions(st, label)
    IN  IF txs = << >> THEN st ELSE txs[Len(txs)]

ConstraintName == "n10s_unique_uri"

\* CREATE CONSTRAINT n10s_unique_uri FOR ... : an error when it exists
CreateConstraint(cs) ==
    IF ConstraintName \in cs
    THEN [constraints |-> cs, error |-> TRUE]
    ELSE [constraints |-> cs \cup {ConstraintName}, error |-> FALSE]

\* no constraint statement is sent
NoConstraint(cs) == [constraints |-> cs, error |-> FALSE]

\* CREATE CONSTRAINT n10s_unique_uri IF NOT EXISTS FOR (r:Resource)
\* REQUIRE r.uri IS UNIQUE
CreateConstraintIfNotExists(cs) ==
    [constraints |-> cs \cup {ConstraintName}, error |-> FALSE]

\* z.namelist(): the entries of the archive, in the order they were written
namelist(z) == SelectSeq(create_methods, LAMBDA f : f \in DOMAIN z.files)

\* every document of an archive committed at once
AllTriples(files) == UNION {files[f] : f \in DOMAIN files}
LoadAll(st, files) == CommitTriples(st, AllTriples(files))

NodeCount(st) == Cardinality(DOMAIN st.nodes)

\* ---- paths -----------------------------------------------------------------
\* ZIPPED_TTLS_PATH, where the Triple Builder leaves its archive, and two
\* paths _set_test_zipped_ttls_path can set: no file, and a file that is
\* not a zip archive
ZIPPED_TTLS_PATH == "ttls.zip"
ZipPaths == {ZIPPED_TTLS_PATH, "missing.zip", "ttls.tar"}
EndsWithZip(path) == path \in {"ttls.zip", "missing.zip"}
PathExists(path) == (path = ZIPPED_TTLS_PATH /\ zip.exists) \/ path = "ttls.tar"

NoResume == [active |-> FALSE, base |-> EmptyStore, files |-> NoFiles,
             failed |-> FALSE]

Idle == tpc = 0 /\ gpc = "none"

builderVars == <<ttls_folder, zip, tpc, builds>>
loaderVars == <<store, constraints, constraintError, gpc, zipped_ttls_path,
                delete_existing_graph, pending, netlog, resume, setups,
                failures, loads>>

\* ---- a new source release is ingested --------------------------------------
\* the snapshots one release away: the relations are withdrawn, or one
\* compound is deprecated
Revisions(sn) ==
    {[sn EXCEPT !.chebi_relation = << >>]}
        \cup {[sn EXCEPT !.chebi_compound[i].status = "D"] :
                 i \in DOMAIN sn.chebi_compound}

new_release ==
    /\ Idle
    /\ zip.exists
    /\ loads >= 1
    /\ releases < MaxReleases
    /\ releases' = releases + 1
    /\ \E sn \in Revisions(snap) \ {snap} : snap' = sn
    /\ UNCHANGED <<builderVars, loaderVars, ingestVars, legacyVars, callVars,
                   fetchVars>>

\* ---- Triple Builder ----------------------------------------------------------
\* TurtleCreator.__init__: os.makedirs(self.__ttls_folder) when absent
TurtleCreator_init ==
    /\ Idle
    /\ builds < MaxBuilds
    /\ builds' = builds + 1
    /\ ttls_folder' = IF ttls_folder.exists THEN ttls_folder
                      ELSE [exists |-> TRUE, files |-> NoFiles]
    /\ tpc' = 1
    /\ UNCHANGED <<zip, snap, releases, loaderVars, ingestVars, legacyVars, callVars,
                   fetchVars>>

\* the k-th create method: graph.serialize(ttl_path, format="turtle")
WriteTtl(k) ==
    /\ tpc = k
    /\ ttls_folder.exists
    /\ ttls_folder' = [ttls_folder EXCEPT !.files =
                          (create_methods[k] :> TtlOf(create_methods[k], snap)) @@ @]
    /\ tpc' = k + 1
    /\ UNCHANGED <<zip, builds, snap, releases, loaderVars, ingestVars, legacyVars, callVars,
                   fetchVars>>

create_compounds_ttl == WriteTtl(1)
create_inchis_ttl == WriteTtl(2)
create_names_ttl == WriteTtl(3)
create_cas_numbers_ttl == WriteTtl(4)
create_patents_ttl == WriteTtl(5)
create_compound_relations_ttl == WriteTtl(6)

\* paths are sequences of components
DATA_FOLDER == << "data" >>
EXPORT_FOLDER == << "data", "ttls" >>
join(path, name) == Append(path, name)
dirname(path) == SubSeq(path, 1, Len(path) - 1)
basename(path) == path[Len(path)]

\* base_name + ".zip"
ZipName(name) == IF name = "ttls" THEN "ttls.zip" ELSE name

\* a base name inside the directory that is archived
BaseNameInside(folder) == join(folder, "ttls")
\* base_name=self.__ttls_folder: the archive is written next to the folder
ArchiveBaseName(folder) == folder

\* shutil.make_archive(base_name, "zip", root_dir): the archive file is
\* created first, then root_dir is walked, so an archive that lies in
\* root_dir has itself as an entry
make_archive(base_name, root_dir, files) ==
    LET path == join(dirname(base_name), ZipName(basename(base_name)))
    IN  [path |-> path,
         files |-> IF dirname(path) = root_dir
                   THEN (basename(path) :> {}) @@ files
                   ELSE files]

\* shutil.make_archive(base_name=folder, root_dir=folder); shutil.rmtree(folder)
create_zip_from_all_ttls ==
    /\ tpc = Len(create_methods) + 1
    /\ LET a == make_archive(ArchiveBaseName(EXPORT_FOLDER), EXPORT_FOLDER,
                             ttls_folder.files)
       IN  zip' = [exists |-> dirname(a.path) # EXPORT_FOLDER, files |-> a.files]
    /\ ttls_folder' = Absent
    /\ tpc' = 0
    /\ UNCHANGED <<builds, snap, releases, loaderVars, ingestVars, legacyVars, callVars,
                   fetchVars>>

\* create_all_ttls is called again on the TurtleCreator of the last build:
\* __init__, which makes the folder, is not run again
create_all_ttls_again ==
    /\ Idle
    /\ builds >= 1
    /\ builds < MaxBuilds
    /\ builds' = builds + 1
    /\ tpc' = 1
    /\ UNCHANGED <<ttls_folder, zip, snap, releases, loaderVars, ingestVars, legacyVars, callVars,
                   fetchVars>>

\* position of a Triple Builder whose create method raised
FileNotFoundError == 0 - 1

\* graph.serialize(ttl_path) opens a file in a folder that does not exist
serialize_raises ==
    /\ tpc \in DOMAIN create_methods
    /\ ~ttls_folder.exists
    /\ tpc' = FileNotFoundError
    /\ UNCHANGED <<ttls_folder, zip, builds, snap, releases, loaderVars, ingestVars, legacyVars, callVars,
                   fetchVars>>

\* ---- Graph Loader ------------------------------------------------------------
\* Neo4jImporter.__init__: the driver, the archive path, verify_connectivity();
\* _set_test_zipped_ttls_path may replace the path
Neo4jImporter_init ==
    /\ Idle
    /\ loads < MaxLoads
    /\ loads' = loads + 1
    /\ \E path \in ZipPaths : zipped_ttls_path' = path
    /\ netlog' = {"verify_connectivity"}
    /\ gpc' = "ready"
    /\ UNCHANGED <<store, constraints, constraintError, delete_existing_graph,
                   pending, resume, setups, failures, snap, releases, builderVars, ingestVars, legacyVars, callVars,
                   fetchVars>>

\* import_ttls: if delete_existing_graph: self._delete_nodes_with_label()
import_ttls ==
    /\ gpc = "ready"
    /\ \E flag \in BOOLEAN :
          /\ delete_existing_graph' = flag
          /\ IF flag
             THEN /\ store' = DeleteNodesWithLabel(store, BASIC_NODE_LABEL)
                  /\ netlog' = netlog \cup {"delete"}
                  /\ resume' = NoResume
             ELSE UNCHANGED <<store, netlog, resume>>
    /\ gpc' = "check"
    /\ UNCHANGED <<constraints, constraintError, zipped_ttls_path, pending,
                   setups, failures, loads, snap, releases, builderVars, ingestVars, legacyVars, callVars,
                   fetchVars>>

\* __import_turtle_files_from_zip: the two checks of the archive path
check_zipped_ttls_path ==
    /\ gpc = "check"
    /\ gpc' = IF ~EndsWithZip(zipped_ttls_path) THEN "ValueError"
              ELSE IF ~PathExists(zipped_ttls_path) THEN "FileNotFoundError"
              ELSE "setup"
    /\ UNCHANGED <<store, constraints, constraintError, zipped_ttls_path,
                   delete_existing_graph, pending, netlog, resume, setups, failures, loads,
                   snap, releases, builderVars, ingestVars, legacyVars, callVars,
                   fetchVars>>

\* __get_neo4j_db: the constraint statement, then the Graph on the store;
\* turtle_file_names = [x for x in z.namelist() if x.endswith(".ttl")]
get_neo4j_db ==
    /\ gpc = "setup"
    /\ LET r == CreateConstraintIfNotExists(constraints)
       IN  /\ constraints' = r.constraints
           /\ constraintError' = (constraintError \/ r.error)
    /\ setups' = setups + 1
    /\ netlog' = netlog \cup {"create_constraint"}
    /\ pending' = namelist(zip)
    /\ resume' = IF resume.active /\ resume.files = zip.files THEN resume
                 ELSE [active |-> TRUE, base |-> store, files |-> zip.files,
                       failed |-> FALSE]
    /\ gpc' = "docs"
    /\ UNCHANGED <<store, zipped_ttls_path, delete_existing_graph, failures, loads, snap,
                   releases, builderVars, ingestVars, legacyVars, callVars,
                   fetchVars>>

\* one iteration of the document loop: neo4j_db.parse(file_io); commit()
import_turtle_file ==
    /\ gpc = "docs"
    /\ pending # << >>
    /\ store' = CommitTriples(store, zip.files[Head(pending)])
    /\ pending' = Tail(pending)
    /\ netlog' = netlog \cup {"commit"}
    /\ UNCHANGED <<constraints, constraintError, gpc, zipped_ttls_path,
                   delete_existing_graph, resume, setups, failures, loads, snap, releases,
                   builderVars, ingestVars, legacyVars, callVars,
                   fetchVars>>

\* parse or commit of a document raises: the batches already flushed (the
\* triples of some of its subjects) stay in the store
import_turtle_file_fails ==
    /\ gpc = "docs"
    /\ pending # << >>
    /\ failures < MaxFailures
    /\ failures' = failures + 1
    /\ LET doc == zip.files[Head(pending)]
       IN  \E S \in SUBSET {t[1] : t \in doc} :
               store' = CommitTriples(store, {t \in doc : t[1] \in S})
    /\ resume' = [resume EXCEPT !.failed = TRUE]
    /\ netlog' = netlog \cup {"commit"}
    /\ gpc' = "failed"
    /\ UNCHANGED <<constraints, constraintError, zipped_ttls_path,
                   delete_existing_graph, pending, setups, loads, snap, releases,
                   builderVars, ingestVars, legacyVars, callVars,
                   fetchVars>>

\* neo4j_db.close(); return True
import_ttls_return ==
    /\ gpc = "docs"
    /\ pending = << >>
    /\ gpc' = "done"
    /\ UNCHANGED <<store, constraints, constraintError, zipped_ttls_path,
                   delete_existing_graph, pending, netlog, resume, setups, failures, loads,
                   snap, releases, builderVars, ingestVars, legacyVars, callVars,
                   fetchVars>>

\* the call is over: the caller has the value or the exception
import_ttls_over ==
    /\ gpc \in {"done", "failed", "ValueError", "FileNotFoundError"}
    /\ resume' = IF gpc = "done" THEN NoResume ELSE resume
    /\ gpc' = "none"
    /\ UNCHANGED <<store, constraints, constraintError, zipped_ttls_path,
                   delete_existing_graph, pending, netlog, setups, failures, loads, snap,
                   releases, builderVars, ingestVars, legacyVars, callVars,
                   fetchVars>>

NextRdf ==
    \/ new_release
    \/ TurtleCreator_init
    \/ create_compounds_ttl
    \/ create_inchis_ttl
    \/ create_names_ttl
    \/ create_cas_numbers_ttl
    \/ create_patents_ttl
    \/ create_compound_relations_ttl
    \/ create_zip_from_all_ttls
    \/ Neo4jImporter_init
    \/ import_ttls
    \/ check_zipped_ttls_path
    \/ get_neo4j_db
    \/ import_turtle_file
    \/ import_turtle_file_fails
    \/ import_ttls_return
    \/ import_ttls_over

\* ------------------------------------------------------------------------
\* Graph Loader of neo4j_importer.py: extract, load, remove the directory
\* ------------------------------------------------------------------------
MaxLegacyRuns == 2

\* archives of turtle documents the loader is pointed at
Archives == SUBSET {"compound.ttl", "inchi.ttl", "name.ttl", "README.md"} \ {{}}

\* x.endswith(".ttl")
EndsWithTtl(x) == x \in {"compound.ttl", "inchi.ttl", "name.ttl", "relation.ttl"}

NoFolder == [exists |-> FALSE, files |-> {}]

\* zip_ref.extractall(self.turtles_folder) of the documents in fs
extractall(d, fs) == [exists |-> TRUE, files |-> d.files \cup fs]

\* shutil.rmtree(self.turtles_folder)
rmtree(d) == NoFolder

\* every entry of the directory
listdir_all(d) == d.files
\* os.listdir(self.turtles_folder), the names that end with .ttl
listdir(d) == {x \in d.files : EndsWithTtl(x)}

\* import_ttls is called on a constructed Neo4jImporter
legacy_import_ttls ==
    /\ lpc = "idle"
    /\ lruns < MaxLegacyRuns
    /\ lruns' = lruns + 1
    /\ lpc' = "extract"
    /\ UNCHANGED <<importer, archive, turtles_folder, ttl_files, neo4j_db,
                   ingestVars, fetchVars, rdfVars, callVars>>

\* extract_turtles_zip: urlretrieve for a URL, then extractall
extract_turtles_zip ==
    /\ lpc = "extract"
    /\ turtles_folder' = extractall(turtles_folder, archive)
    /\ lpc' = IF importer.delete_existing_graph THEN "delete" ELSE "constraint"
    /\ UNCHANGED <<importer, archive, ttl_files, neo4j_db, lruns,
                   ingestVars, fetchVars, rdfVars, callVars>>

\* extract_turtles_zip raises: urlretrieve fails before anything is
\* extracted, or extractall fails after some of the documents
extract_turtles_zip_raises ==
    /\ lpc = "extract"
    /\ \/ importer.is_url /\ turtles_folder' = turtles_folder
       \/ \E fs \in SUBSET archive :
             fs # archive /\ turtles_folder' = extractall(turtles_folder, fs)
    /\ lpc' = "raised"
    /\ UNCHANGED <<importer, archive, ttl_files, neo4j_db, lruns,
                   ingestVars, fetchVars, rdfVars, callVars>>

\* _delete_existing_graph: DETACH DELETE of the nodes with the sentinel label
legacy_delete_existing_graph ==
    /\ lpc = "delete"
    /\ neo4j_db' = {}
    /\ lpc' = "constraint"
    /\ UNCHANGED <<importer, archive, turtles_folder, ttl_files, lruns,
                   ingestVars, fetchVars, rdfVars, callVars>>

\* CREATE CONSTRAINT ... IF NOT EXISTS, the rdflib store, os.listdir
legacy_create_constraint ==
    /\ lpc = "constraint"
    /\ ttl_files' = listdir(turtles_folder)
    /\ lpc' = "parse"
    /\ UNCHANGED <<importer, archive, turtles_folder, neo4j_db, lruns,
                   ingestVars, fetchVars, rdfVars, callVars>>

\* neo4j_db.parse(ttl_path, format="ttl") of one listed document
legacy_parse ==
    /\ lpc = "parse"
    /\ \E f \in ttl_files :
          /\ neo4j_db' = neo4j_db \cup {f}
          /\ ttl_files' = ttl_files \ {f}
    /\ UNCHANGED <<importer, archive, turtles_folder, lpc, lruns,
                   ingestVars, fetchVars, rdfVars, callVars>>

\* the delete, the constraint statement or a parse raises: nothing in
\* import_ttls catches the exception
legacy_raises ==
    /\ \/ lpc \in {"delete", "constraint"}
       \/ lpc = "parse" /\ ttl_files # {}
    /\ lpc' = "raised"
    /\ UNCHANGED <<importer, archive, turtles_folder, ttl_files, neo4j_db, lruns,
                   ingestVars, fetchVars, rdfVars, callVars>>

\* neo4j_db.close(True); shutil.rmtree(self.turtles_folder); return True
legacy_import_ttls_return ==
    /\ lpc = "parse"
    /\ ttl_files = {}
    /\ turtles_folder' = rmtree(turtles_folder)
    /\ lpc' = "returned"
    /\ UNCHANGED <<importer, archive, ttl_files, neo4j_db, lruns,
                   ingestVars, fetchVars, rdfVars, callVars>>

\* the caller is back in control and may call import_ttls again
legacy_import_ttls_over ==
    /\ lpc \in {"returned", "raised"}
    /\ lruns < MaxLegacyRuns
    /\ lpc' = "idle"
    /\ UNCHANGED <<importer, archive, turtles_folder, ttl_files, neo4j_db, lruns,
                   ingestVars, fetchVars, rdfVars, callVars>>

NextLegacy ==
    \/ legacy_import_ttls
    \/ extract_turtles_zip
    \/ extract_turtles_zip_raises
    \/ legacy_delete_existing_graph
    \/ legacy_create_constraint
    \/ legacy_parse
    \/ legacy_raises
    \/ legacy_import_ttls_return
    \/ legacy_import_ttls_over

\* ------------------------------------------------------------------------
\* import_all (crud.py): the stages in a row
\* ------------------------------------------------------------------------
\* export folders a caller passes; << >> is no folder given
ExportFolders == {<< >>, << "out" >>, << "data" >>, << "data", "ttls" >>}

\* archives that may lie on disk before the call
StaleZips == {<< "out", "ttls.zip" >>, << "data", "ttls.zip" >>,
              << "data", "ttls", "ttls.zip" >>}

\* path p lies in the directory folder
Inside(p, folder) ==
    Len(p) > Len(folder) /\ SubSeq(p, 1, Len(folder)) = folder

\* TurtleCreator.__init__: the staging directory for an export folder
TtlsFolder(export_to_folder) ==
    IF export_to_folder # << >> THEN join(export_to_folder, "ttls")
    ELSE EXPORT_FOLDER

\* the engine is made, DatabaseImporter(...).import_db()
import_all_import_db ==
    /\ ppc = "idle"
    /\ ppc' = "import_db"
    /\ UNCHANGED <<engine, ttl_export_folder, zips, path_to_zip_file, path_or_url,
                   ingestVars, fetchVars, rdfVars, legacyVars>>

\* TurtleCreator(engine, export_to_folder=ttl_export_folder).create_all_ttls():
\* the archive is written, the staging directory removed with all it holds
import_all_create_all_ttls ==
    /\ ppc = "import_db"
    /\ LET folder == TtlsFolder(ttl_export_folder)
           a == make_archive(ArchiveBaseName(folder), folder, NoFiles)
       IN  /\ zips' = {p \in zips \cup {a.path} : ~Inside(p, folder)}
           /\ path_to_zip_file' = a.path
    /\ ppc' = "create_all_ttls"
    /\ UNCHANGED <<engine, ttl_export_folder, path_or_url,
                   ingestVars, fetchVars, rdfVars, legacyVars>>

\* if not ttl_export_folder: ttl_export_folder = EXPORT_FOLDER;
\* Neo4jImporter(path_or_url=os.path.join(ttl_export_folder, "ttls.zip")),
\* whose __init__ raises FileExistsError when the path does not exist
import_all_Neo4jImporter ==
    /\ ppc = "create_all_ttls"
    /\ LET folder == IF ttl_export_folder = << >> THEN EXPORT_FOLDER
                     ELSE ttl_export_folder
           path == join(folder, "ttls.zip")
       IN  /\ path_or_url' = path
           /\ ppc' = IF path \in zips THEN "Neo4jImporter" ELSE "FileExistsError"
    /\ \E flag \in BOOLEAN :
          importer' = [is_url |-> FALSE, delete_existing_graph |-> flag]
    /\ UNCHANGED <<engine, ttl_export_folder, zips, path_to_zip_file,
                   archive, turtles_folder, ttl_files, neo4j_db, lpc, lruns,
                   ingestVars, fetchVars, rdfVars>>

\* neo4j_importer.import_ttls()
import_all_import_ttls ==
    /\ ppc = "Neo4jImporter"
    /\ ppc' = "import_ttls"
    /\ UNCHANGED <<engine, ttl_export_folder, zips, path_to_zip_file, path_or_url,
                   ingestVars, fetchVars, rdfVars, legacyVars>>

NextPipeline ==
    \/ import_all_import_db
    \/ import_all_create_all_ttls
    \/ import_all_Neo4jImporter
    \/ import_all_import_ttls

vars == <<ingestVars, fetchVars, rdfVars, legacyVars, callVars>>

\* the loaders start on staged files; the Triple Builder and the Graph
\* Loader are at rest
InitIngest ==
    /\ loader \in {"DatabaseImporter", "DbManager"}
    /\ fkEnforced \in (IF loader = "DatabaseImporter" THEN {TRUE} ELSE BOOLEAN)
    /\ \E S \in SUBSET CompoundIds, fks \in SeqsUpTo(CompoundIds, MaxRows),
          prs \in SeqsUpTo(CompoundIds \X CompoundIds, MaxRelRows) :
          staged = StagedFiles(S, fks, prs)
    /\ db = EmptyDb
    /\ inserted = NoCounts
    /\ df_compound_ids = NULL
    /\ tblIdx = 0
    /\ opened = FALSE
    /\ pos = 0
    /\ ipc = "idle"
    /\ runs = 0
    /\ dir = [f \in AllTables |-> "old"]
    /\ force_download = FALSE
    /\ keep_files = TRUE
    /\ fidx = 0
    /\ ftp = FALSE
    /\ requested = {}
    /\ error = NoFile
    /\ importer = [is_url |-> FALSE, delete_existing_graph |-> FALSE]
    /\ archive = {"compound.ttl"}
    /\ turtles_folder = NoFolder
    /\ ttl_files = {}
    /\ neo4j_db = {}
    /\ lpc = "idle"
    /\ lruns = 0
    /\ snap = [chebi_compound |-> << >>, chebi_relation |-> << >>,
               chebi_name |-> << >>, chebi_inchi |-> << >>,
               chebi_database_accession |-> << >>, chebi_reference |-> << >>]
    /\ ttls_folder = Absent
    /\ zip = Absent
    /\ tpc = 0
    /\ store = EmptyStore
    /\ constraints = {}
    /\ constraintError = FALSE
    /\ gpc = "none"
    /\ zipped_ttls_path = ZIPPED_TTLS_PATH
    /\ delete_existing_graph = TRUE
    /\ pending = << >>
    /\ netlog = {}
    /\ resume = NoResume
    /\ setups = 0
    /\ failures = 0
    /\ builds = 0
    /\ loads = 0
    /\ releases = 0
    /\ engine = (IF loader = "DatabaseImporter" THEN "mysql" ELSE "sqlite")
    /\ ttl_export_folder = << >>
    /\ zips = {}
    /\ path_to_zip_file = << >>
    /\ path_or_url = << >>
    /\ ppc = "idle"

\* the Triple Builder starts on a relational snapshot and the Graph Loader on
\* an empty store; the relational loaders are at rest
InitRdf ==
    /\ snap \in Snapshots
    /\ ttls_folder = Absent
    /\ zip = Absent
    /\ tpc = 0
    /\ store = EmptyStore
    /\ constraints = {}
    /\ constraintError = FALSE
    /\ gpc = "none"
    /\ zipped_ttls_path = ZIPPED_TTLS_PATH
    /\ delete_existing_graph = TRUE
    /\ pending = << >>
    /\ netlog = {}
    /\ resume = NoResume
    /\ setups = 0
    /\ failures = 0
    /\ builds = 0
    /\ loads = 0
    /\ releases = 0
    /\ loader = "DbManager"
    /\ fkEnforced = FALSE
    /\ staged = StagedFiles({}, << >>, << >>)
    /\ db = EmptyDb
    /\ inserted = NoCounts
    /\ df_compound_ids = NULL
    /\ tblIdx = 0
    /\ opened = FALSE
    /\ pos = 0
    /\ ipc = "idle"
    /\ runs = 0
    /\ dir = [f \in AllTables |-> "old"]
    /\ force_download = FALSE
    /\ keep_files = TRUE
    /\ fidx = 0
    /\ ftp = FALSE
    /\ requested = {}
    /\ error = NoFile
    /\ importer = [is_url |-> FALSE, delete_existing_graph |-> FALSE]
    /\ archive = {"compound.ttl"}
    /\ turtles_folder = NoFolder
    /\ ttl_files = {}
    /\ neo4j_db = {}
    /\ lpc = "idle"
    /\ lruns = 0
    /\ engine = "sqlite"
    /\ ttl_export_folder = << >>
    /\ zips = {}
    /\ path_to_zip_file = << >>
    /\ path_or_url = << >>
    /\ ppc = "idle"

SpecIngest == InitIngest /\ [][NextIngest]_vars

SpecRdf == InitRdf /\ [][NextRdf]_vars

\* staging directories of loader l before a call: empty, or with at most
\* MaxAbsent of the loader's files missing
StagingDirs(l) ==
    LET files == {FetchFiles(l)[i] : i \in DOMAIN FetchFiles(l)}
    IN  {d \in [AllTables -> {"absent", "old"}] :
            /\ \A f \in AllTables \ files : d[f] = "absent"
            /\ \/ \A f \in files : d[f] = "absent"
               \/ Cardinality({f \in files : d[f] = "absent"}) <= MaxAbsent}

\* the entry point of a loader is called on a staging directory; the remote
\* release has one compound, one row in every dependent file and one
\* relation
InitFetch ==
    /\ loader \in {"DatabaseImporter", "DbManager"}
    /\ fkEnforced = (loader = "DatabaseImporter")
    /\ staged = StagedFiles({1}, << 1 >>, << << 1, 1 >> >>)
    /\ db = EmptyDb
    /\ inserted = NoCounts
    /\ df_compound_ids = NULL
    /\ tblIdx = 0
    /\ opened = FALSE
    /\ pos = 0
    /\ ipc = "idle"
    /\ runs = 0
    /\ dir \in StagingDirs(loader)
    /\ force_download \in BOOLEAN
    /\ keep_files \in (IF loader = "DbManager" THEN BOOLEAN ELSE {TRUE})
    /\ fidx = 0
    /\ ftp = FALSE
    /\ requested = {}
    /\ error = NoFile
    /\ snap = [chebi_compound |-> << >>, chebi_relation |-> << >>,
               chebi_name |-> << >>, chebi_inchi |-> << >>,
               chebi_database_accession |-> << >>, chebi_reference |-> << >>]
    /\ ttls_folder = Absent
    /\ zip = Absent
    /\ tpc = 0
    /\ store = EmptyStore
    /\ constraints = {}
    /\ constraintError = FALSE
    /\ gpc = "none"
    /\ zipped_ttls_path = ZIPPED_TTLS_PATH
    /\ delete_existing_graph = TRUE
    /\ pending = << >>
    /\ netlog = {}
    /\ resume = NoResume
    /\ setups = 0
    /\ failures = 0
    /\ builds = 0
    /\ loads = 0
    /\ releases = 0
    /\ importer = [is_url |-> FALSE, delete_existing_graph |-> FALSE]
    /\ archive = {"compound.ttl"}
    /\ turtles_folder = NoFolder
    /\ ttl_files = {}
    /\ neo4j_db = {}
    /\ lpc = "idle"
    /\ lruns = 0
    /\ engine = (IF loader = "DatabaseImporter" THEN "mysql" ELSE "sqlite")
    /\ ttl_export_folder = << >>
    /\ zips = {}
    /\ path_to_zip_file = << >>
    /\ path_or_url = << >>
    /\ ppc = "idle"

SpecFetch == InitFetch /\ [][NextFetch]_vars

\* the entry point of a loader is called with any of the engines
InitEngine ==
    /\ loader \in {"DatabaseImporter", "DbManager"}
    /\ fkEnforced = (loader = "DatabaseImporter")
    /\ staged = StagedFiles({1}, << 1 >>, << << 1, 1 >> >>)
    /\ db = EmptyDb
    /\ inserted = NoCounts
    /\ df_compound_ids = NULL
    /\ tblIdx = 0
    /\ opened = FALSE
    /\ pos = 0
    /\ ipc = "idle"
    /\ runs = 0
    /\ dir \in StagingDirs(loader)
    /\ force_download \in BOOLEAN
    /\ keep_files \in (IF loader = "DbManager" THEN BOOLEAN ELSE {TRUE})
    /\ fidx = 0
    /\ ftp = FALSE
    /\ requested = {}
    /\ error = NoFile
    /\ snap = [chebi_compound |-> << >>, chebi_relation |-> << >>,
               chebi_name |-> << >>, chebi_inchi |-> << >>,
               chebi_database_accession |-> << >>, chebi_reference |-> << >>]
    /\ ttls_folder = Absent
    /\ zip = Absent
    /\ tpc = 0
    /\ store = EmptyStore
    /\ constraints = {}
    /\ constraintError = FALSE
    /\ gpc = "none"
    /\ zipped_ttls_path = ZIPPED_TTLS_PATH
    /\ delete_existing_graph = TRUE
    /\ pending = << >>
    /\ netlog = {}
    /\ resume = NoResume
    /\ setups = 0
    /\ failures = 0
    /\ builds = 0
    /\ loads = 0
    /\ releases = 0
    /\ importer = [is_url |-> FALSE, delete_existing_graph |-> FALSE]
    /\ archive = {"compound.ttl"}
    /\ turtles_folder = NoFolder
    /\ ttl_files = {}
    /\ neo4j_db = {}
    /\ lpc = "idle"
    /\ lruns = 0
    /\ engine \in Engines
    /\ ttl_export_folder = << >>
    /\ zips = {}
    /\ path_to_zip_file = << >>
    /\ path_or_url = << >>
    /\ ppc = "idle"

NextEngine ==
    \/ NextFetch
    \/ DatabaseImporter_init_raises
    \/ create_empty_db_raises

SpecEngine == InitEngine /\ [][NextEngine]_vars

\* the engine is one loader l is written for
ExpectedEngine(l, e) ==
    IF l = "DatabaseImporter" THEN check_is_mysql_or_mariadb(e)
    ELSE isinstance_Engine(e)

\* C24: with an engine of another dialect, or an object that is no engine,
\* the loader fails at its start: no file is requested, the schema is not
\* dropped or created and no row is inserted
C24_BadEngineFailsAtStart ==
    ~ExpectedEngine(loader, engine) =>
        /\ ipc \in {"idle", "init_failed"}
        /\ requested = {}
        /\ \A f \in AllTables : dir[f] \in {"absent", "old"}
        /\ db = EmptyDb

\* the Graph Loader of neo4j_importer.py is constructed on an archive that
\* exists, with the working directory absent; everything else is at rest
InitLegacy ==
    /\ importer \in [is_url : BOOLEAN, delete_existing_graph : BOOLEAN]
    /\ archive \in Archives
    /\ turtles_folder = NoFolder
    /\ ttl_files = {}
    /\ neo4j_db \in {{}, {"relation.ttl"}}
    /\ lpc = "idle"
    /\ lruns = 0
    /\ loader = "DbManager"
    /\ fkEnforced = FALSE
    /\ staged = StagedFiles({}, << >>, << >>)
    /\ db = EmptyDb
    /\ inserted = NoCounts
    /\ df_compound_ids = NULL
    /\ tblIdx = 0
    /\ opened = FALSE
    /\ pos = 0
    /\ ipc = "idle"
    /\ runs = 0
    /\ dir = [f \in AllTables |-> "old"]
    /\ force_download = FALSE
    /\ keep_files = TRUE
    /\ fidx = 0
    /\ ftp = FALSE
    /\ requested = {}
    /\ error = NoFile
    /\ snap = [chebi_compound |-> << >>, chebi_relation |-> << >>,
               chebi_name |-> << >>, chebi_inchi |-> << >>,
               chebi_database_accession |-> << >>, chebi_reference |-> << >>]
    /\ ttls_folder = Absent
    /\ zip = Absent
    /\ tpc = 0
    /\ store = EmptyStore
    /\ constraints = {}
    /\ constraintError = FALSE
    /\ gpc = "none"
    /\ zipped_ttls_path = ZIPPED_TTLS_PATH
    /\ delete_existing_graph = TRUE
    /\ pending = << >>
    /\ netlog = {}
    /\ resume = NoResume
    /\ setups = 0
    /\ failures = 0
    /\ builds = 0
    /\ loads = 0
    /\ releases = 0
    /\ engine = "sqlite"
    /\ ttl_export_folder = << >>
    /\ zips = {}
    /\ path_to_zip_file = << >>
    /\ path_or_url = << >>
    /\ ppc = "idle"

SpecLegacy == InitLegacy /\ [][NextLegacy]_vars

\* import_all is called with or without an export folder, on a disk that
\* may hold archives of earlier calls; the stages themselves are at rest
InitPipeline ==
    /\ loader = "DatabaseImporter"
    /\ fkEnforced = FALSE
    /\ staged = StagedFiles({}, << >>, << >>)
    /\ db = EmptyDb
    /\ inserted = NoCounts
    /\ df_compound_ids = NULL
    /\ tblIdx = 0
    /\ opened = FALSE
    /\ pos = 0
    /\ ipc = "idle"
    /\ runs = 0
    /\ dir = [f \in AllTables |-> "old"]
    /\ force_download = FALSE
    /\ keep_files = TRUE
    /\ fidx = 0
    /\ ftp = FALSE
    /\ requested = {}
    /\ error = NoFile
    /\ importer = [is_url |-> FALSE, delete_existing_graph |-> FALSE]
    /\ archive = {"compound.ttl"}
    /\ turtles_folder = NoFolder
    /\ ttl_files = {}
    /\ neo4j_db = {}
    /\ lpc = "idle"
    /\ lruns = 0
    /\ snap = [chebi_compound |-> << >>, chebi_relation |-> << >>,
               chebi_name |-> << >>, chebi_inchi |-> << >>,
               chebi_database_accession |-> << >>, chebi_reference |-> << >>]
    /\ ttls_folder = Absent
    /\ zip = Absent
    /\ tpc = 0
    /\ store = EmptyStore
    /\ constraints = {}
    /\ constraintError = FALSE
    /\ gpc = "none"
    /\ zipped_ttls_path = ZIPPED_TTLS_PATH
    /\ delete_existing_graph = TRUE
    /\ pending = << >>
    /\ netlog = {}
    /\ resume = NoResume
    /\ setups = 0
    /\ failures = 0
    /\ builds = 0
    /\ loads = 0
    /\ releases = 0
    /\ engine = "mysql"
    /\ ttl_export_folder \in ExportFolders
    /\ zips \in SUBSET StaleZips
    /\ path_to_zip_file = << >>
    /\ path_or_url = << >>
    /\ ppc = "idle"

SpecPipeline == InitPipeline /\ [][NextPipeline]_vars

\* C26: in import_all the path handed to the Graph Loader is the path at
\* which the Triple Builder wrote its archive, with or without an export
\* folder given, and the Graph Loader is constructed on an existing archive
C26_LoaderGetsBuilderArchive ==
    ppc \in {"Neo4jImporter", "FileExistsError", "import_ttls"} =>
        /\ path_or_url = path_to_zip_file
        /\ ppc # "FileExistsError"

\* C17: when import_ttls of the extracting Graph Loader is over, whether it
\* returned or raised (extraction, delete, constraint or parse error), the
\* working directory of extracted documents does not exist
C17_WorkingDirectoryRemoved ==
    lpc \in {"returned", "raised"} => ~turtles_folder.exists

\* C23: import_ttls returns its success value only when every .ttl document
\* of the archive has been parsed and committed; after a failure the call
\* is over without a success value; an entry without the .ttl suffix is
\* never parsed
C23_SuccessOnlyAfterEveryTtl ==
    [][/\ lpc' = "returned" =>
             \A x \in archive : EndsWithTtl(x) => x \in neo4j_db'
       /\ lpc = "raised" => lpc' \in {"raised", "idle"}
       /\ \A x \in neo4j_db' \ neo4j_db : EndsWithTtl(x)]_vars

\* a call on an archive with documents and another entry has returned
C23_Witness ==
    /\ lpc = "returned"
    /\ "README.md" \in archive
    /\ \E x \in archive : EndsWithTtl(x)
    /\ "README.md" \notin neo4j_db
    /\ \A x \in archive : EndsWithTtl(x) => x \in neo4j_db

\* ------------------------------------------------------------------------
\* Triple Builder alone, on snapshots whose InChI may have no key
\* ------------------------------------------------------------------------
\* a valid InChI and one rdkit derives no key from
InchiStrings == {"InChI=1S/H2O/h1H2", "InChI=1S/"}

\* a patent number, and one that reads like the CAS number of the snapshot
PatentIds == {"US2008", "7732-18-5"}

BuildSnapshots ==
    {[sn EXCEPT !.chebi_inchi = << [compound_id |-> Owner, inchi |-> x] >>,
                !.chebi_reference[1].reference_id = pid] :
        sn \in Snapshots, x \in InchiStrings, pid \in PatentIds}

InitBuild ==
    /\ snap \in BuildSnapshots
    /\ ttls_folder = Absent
    /\ zip = Absent
    /\ tpc = 0
    /\ store = EmptyStore
    /\ constraints = {}
    /\ constraintError = FALSE
    /\ gpc = "none"
    /\ zipped_ttls_path = ZIPPED_TTLS_PATH
    /\ delete_existing_graph = TRUE
    /\ pending = << >>
    /\ netlog = {}
    /\ resume = NoResume
    /\ setups = 0
    /\ failures = 0
    /\ builds = 0
    /\ loads = 0
    /\ releases = 0
    /\ loader = "DbManager"
    /\ fkEnforced = FALSE
    /\ staged = StagedFiles({}, << >>, << >>)
    /\ db = EmptyDb
    /\ inserted = NoCounts
    /\ df_compound_ids = NULL
    /\ tblIdx = 0
    /\ opened = FALSE
    /\ pos = 0
    /\ ipc = "idle"
    /\ runs = 0
    /\ dir = [f \in AllTables |-> "old"]
    /\ force_download = FALSE
    /\ keep_files = TRUE
    /\ fidx = 0
    /\ ftp = FALSE
    /\ requested = {}
    /\ error = NoFile
    /\ importer = [is_url |-> FALSE, delete_existing_graph |-> FALSE]
    /\ archive = {"compound.ttl"}
    /\ turtles_folder = NoFolder
    /\ ttl_files = {}
    /\ neo4j_db = {}
    /\ lpc = "idle"
    /\ lruns = 0
    /\ engine = "sqlite"
    /\ ttl_export_folder = << >>
    /\ zips = {}
    /\ path_to_zip_file = << >>
    /\ path_or_url = << >>
    /\ ppc = "idle"

NextBuild ==
    \/ TurtleCreator_init
    \/ create_compounds_ttl
    \/ create_inchis_ttl
    \/ create_names_ttl
    \/ create_cas_numbers_ttl
    \/ create_patents_ttl
    \/ create_compound_relations_ttl
    \/ create_zip_from_all_ttls
    \/ create_all_ttls_again
    \/ serialize_raises

SpecBuild == InitBuild /\ [][NextBuild]_vars

\* ---- properties of the Source Fetcher --------------------------------------
\* C14: in the file loop, a file that exists is left untouched and no
\* download is issued for it when force_download is false; in every other
\* case (file absent, or force_download) a download is issued for it
C14_SkipExistingUnlessForced ==
    [][(ipc = "download" /\ fidx <= Len(FetchFiles(loader))) =>
          LET f == FetchFiles(loader)[fidx]
          IN  IF exists(dir, f) /\ ~force_download
              THEN dir' = dir /\ requested' = requested
              ELSE f \in requested']_vars

\* a fetch that skipped one file and downloaded another has returned
C14_Witness ==
    /\ ipc = "fetched"
    /\ ~force_download
    /\ requested # {}
    /\ \E i \in DOMAIN FetchFiles(loader) :
          FetchFiles(loader)[i] \notin requested /\ dir[FetchFiles(loader)[i]] = "old"

\* C15: when the download of a file fails, before or after the first bytes
\* were written, nothing the failed download wrote is left at the file's
\* final staging path
C15_NoPartialFileLeft ==
    ipc = "download_failed" => dir[error] \notin {"partial", "new"}

\* C30: when a DbManager import_data call returns, every file of the
\* table-to-file map is gone if keep_files is false and the staging
\* directory is as the fetch left it if keep_files is true; the fetch of a
\* following call with force_download false requests exactly the files
\* that are absent: all of them, or none
C30_KeepFilesDecidesNextFetch ==
    [][/\ (loader = "DbManager" /\ ipc = "done" /\ ipc' = "returned") =>
             IF keep_files
             THEN dir' = dir
             ELSE \A f \in FetchFileSet(loader) : ~exists(dir', f)
       /\ (loader = "DbManager" /\ ipc = "download" /\ ipc' = "fetched"
              /\ runs = 2 /\ ~force_download /\ db[CompoundTable] # << >>) =>
             requested' = IF keep_files THEN {} ELSE FetchFileSet(loader)]_vars

\* the second call after a first one that removed its files has fetched
\* every file again
C30_Witness ==
    /\ loader = "DbManager"
    /\ ipc = "fetched"
    /\ runs = 2
    /\ ~force_download
    /\ ~keep_files
    /\ db[CompoundTable] # << >>
    /\ requested = FetchFileSet(loader)

\* C16: a transport error on a file aborts the fetch and the call: the
\* exception leaves the entry point, no other file is downloaded, and the
\* relational store is neither dropped nor written
C16_TransportErrorAborts ==
    [][error' # NoFile =>
          /\ ipc' \in {"download_failed", "idle"}
          /\ db' = db
          /\ inserted' = inserted
          /\ error # NoFile => (dir' = dir /\ requested' = requested)]_vars

\* the fetch of a second call failed with files still to download, and the
\* store holds the rows of the first call
C16_Witness ==
    /\ ipc = "download_failed"
    /\ db[CompoundTable] # << >>
    /\ \E i \in DOMAIN FetchFiles(loader) :
          i > fidx /\ dir[FetchFiles(loader)[i]] = "absent"

\* ---- properties of the Triple Builder -------------------------------------
\* every create method of this TurtleCreator has written its document
Written == tpc = Len(create_methods) + 1
Docs == ttls_folder.files
chebi(i) == Uri("chebi", Str(i))

\* published status and no parent: the rows every per-compound query selects
Publishable(sn, i) == OwnerSelected(sn, i)

Mentions(T, u) == \E t \in T : t[1] = u \/ t[3] = u

\* C3: a compound that is not published, or that has a parent, has its URI
\* neither as subject nor as object of any triple of any written document
C3_PublishabilityFilter ==
    Written =>
        \A i \in CompoundIds :
            ~Publishable(snap, i) =>
                \A f \in DOMAIN Docs : ~Mentions(Docs[f], chebi(i))

\* relation rows between two publishable compounds
PublishableRelations(sn) ==
    {r \in Rows(sn.chebi_relation) :
        Publishable(sn, r.init_id) /\ Publishable(sn, r.final_id)}

\* C4 (as claimed): every relation row between two publishable compounds has
\* its edge in the relation document, from the init compound to the final one
C4_InitToFinal ==
    Written =>
        \A r \in PublishableRelations(snap) :
            RelationTripleInitToFinal(r) \in Docs["relation.ttl"]

\* C4: every relation row of status C or E between two publishable compounds
\* has its edge in the relation document with the upper-cased type as
\* predicate, from the final compound to the init compound; the edge from
\* init to final is there only when another row states it
C4_FinalToInit ==
    Written =>
        \A r \in PublishableRelations(snap) :
            r.status \in {"C", "E"} =>
                /\ << chebi(r.final_id), Uri("relation", << Upper(r.type) >>),
                      chebi(r.init_id) >> \in Docs["relation.ttl"]
                /\ << chebi(r.init_id), Uri("relation", << Upper(r.type) >>),
                      chebi(r.final_id) >> \in Docs["relation.ttl"]
                      => \E q \in Rows(snap.chebi_relation) :
                            /\ q.type = r.type
                            /\ q.init_id = r.final_id
                            /\ q.final_id = r.init_id

C4_Witness ==
    /\ Written
    /\ \E r \in PublishableRelations(snap) : r.status = "C"
    /\ Docs["relation.ttl"] # {}

\* the documents the archive is claimed to hold: the four fixed ones and one
\* <prefix>_xref.ttl for each prefix with cross-reference rows
XrefDocs(sn) ==
    {"cas_xref.ttl" : r \in {r \in Rows(sn.chebi_database_accession) :
                               r.type = "CAS Registry Number"}}
ExpectedFileSet(sn) ==
    {"compound.ttl", "inchi.ttl", "name.ttl", "relation.ttl"} \cup XrefDocs(sn)

\* C10: the archive the Triple Builder returns holds exactly compound.ttl,
\* inchi.ttl, name.ttl, relation.ttl and one <prefix>_xref.ttl per prefix
\* that has cross-reference rows in the snapshot
C10_ArchiveFileSet ==
    [][create_zip_from_all_ttls =>
          {namelist(zip')[k] : k \in DOMAIN namelist(zip')} = ExpectedFileSet(snap)]_vars

\* ---- properties of the Graph Loader ---------------------------------------
\* C5: a load that fails on its archive path has sent nothing to the graph
\* store: no connectivity check, no delete, no constraint, no commit
C5_PathCheckedBeforeNetwork ==
    gpc \in {"ValueError", "FileNotFoundError"} => netlog = {}

\* C6: a completed load with delete_existing_graph, on a store that earlier
\* loads (none of which failed) have filled, leaves exactly the nodes of a
\* load of the archive into an empty store, and as many
C6_PurgeThenLoadIsFreshLoad ==
    (gpc = "done" /\ delete_existing_graph /\ failures = 0) =>
        /\ DOMAIN store.nodes = DOMAIN LoadAll(EmptyStore, zip.files).nodes
        /\ NodeCount(store) = NodeCount(LoadAll(EmptyStore, zip.files))

\* C7: every node of the store after a load that ran through all documents
\* carries the sentinel label
C7_SentinelOnEveryNode ==
    (gpc = "done" /\ failures = 0) =>
        \A u \in DOMAIN store.nodes : BASIC_NODE_LABEL \in store.nodes[u].labels

\* C8: after any number of constraint setups there is exactly one uniqueness
\* constraint on the resource uri and no setup has raised an error
C8_IdempotentConstraint ==
    setups >= 1 => (Cardinality(constraints) = 1 /\ ~constraintError)

C8_Witness == setups >= 2 /\ gpc = "docs"

\* C9: a load that completes on the archive a previous run failed on, with
\* no purge in between, ends with the nodes of one uninterrupted load of the
\* archive into the store the failed run started from
C9_ResumeEqualsOneLoad ==
    (gpc = "done" /\ resume.active /\ resume.failed) =>
        store.nodes = LoadAll(resume.base, zip.files).nodes

C9_Witness ==
    /\ gpc = "done"
    /\ resume.active
    /\ resume.failed
    /\ ~delete_existing_graph
    /\ DOMAIN store.nodes # DOMAIN resume.base.nodes

\* C21: with delete_existing_graph set, the delete statement runs as inner
\* transactions of at most RowsPerTransaction nodes each and has removed
\* every sentinel-labelled node when import_ttls goes on, and the store
\* holds no sentinel-labelled node when the first document is parsed
C21_PurgeBeforeLoadInBoundedTransactions ==
    [][/\ (gpc = "ready" /\ gpc' = "check" /\ delete_existing_graph') =>
             LET txs == PurgeTransactions(store, BASIC_NODE_LABEL)
                 before(k) == IF k = 1 THEN store ELSE txs[k - 1]
             IN  /\ \A k \in DOMAIN txs :
                       NodeCount(before(k)) - NodeCount(txs[k])
                           \in 1 .. RowsPerTransaction
                 /\ Matched(store', BASIC_NODE_LABEL) = {}
       /\ (gpc = "docs" /\ delete_existing_graph /\ pending = namelist(zip)
              /\ pending' # pending) =>
             Matched(store, BASIC_NODE_LABEL) = {}]_vars

\* the second run of a loader whose first run loaded an archive with more
\* sentinel-labelled nodes than one transaction takes has purged them
C21_Witness ==
    /\ gpc = "check"
    /\ delete_existing_graph
    /\ loads = 2
    /\ setups >= 1
    /\ failures = 0
    /\ releases = 0
    /\ zip.exists
    /\ Cardinality(Matched(LoadAll(EmptyStore, zip.files), BASIC_NODE_LABEL))
          > RowsPerTransaction
    /\ Matched(store, BASIC_NODE_LABEL) = {}

\* C22: in every Graph Loader run, when a document is parsed or committed
\* the run has sent its constraint statement and the uniqueness constraint
\* on the resource URI exists
C22_ConstraintBeforeFirstDocument ==
    [][(gpc = "docs" /\ (pending' # pending \/ store' # store \/ gpc' = "failed")) =>
          /\ "create_constraint" \in netlog
          /\ ConstraintName \in constraints]_vars

\* the first run on a store without constraint has committed a document
C22_Witness ==
    /\ gpc = "docs"
    /\ loads = 1
    /\ "commit" \in netlog
    /\ store # EmptyStore
    /\ ConstraintName \in constraints

\* C27: an import_ttls call on a path that is not a zip file or does not
\* exist leaves the graph store as it was
C27_PathErrorLeavesStoreUnchanged ==
    [][(gpc = "ready"
          /\ ~(EndsWithZip(zipped_ttls_path) /\ PathExists(zipped_ttls_path))) =>
          store' = store]_vars

\* C25: when the Triple Builder has packaged its documents the archive
\* exists, it holds the documents of the staging directory and not itself,
\* and the staging directory no longer exists
C25_ArchiveReplacesStagingDirectory ==
    [][(tpc = Len(create_methods) + 1 /\ tpc' = 0) =>
          /\ zip'.exists
          /\ ~ttls_folder'.exists
          /\ zip'.files = ttls_folder.files
          /\ \A f \in DOMAIN zip'.files : f \in Rows(create_methods)]_vars

\* a build has packaged its six documents
C25_Witness ==
    /\ tpc = 0
    /\ builds >= 1
    /\ zip.exists
    /\ ~ttls_folder.exists
    /\ DOMAIN zip.files = Rows(create_methods)

\* C29: a create_all_ttls call on a TurtleCreator that has already built
\* its archive does not raise
C29_RepeatedBuildSucceeds ==
    tpc # FileNotFoundError

\* the nodes of a set of triples that carry a type label
NodesTyped(T, label) ==
    {t[1] : t \in {t \in T : t[2] = RdfType /\ t[3] = Uri("node", << label >>)}}

EntityTypes == {"Compound", "InChI", "Name", "Cas", "Patent"}

\* C28: in the written documents the nodes of two different entity types
\* have URIs of different namespaces, so no URI is a node of two types
C28_EntityNamespacesDisjoint ==
    Written =>
        \A a, b \in EntityTypes :
            a # b =>
                LET A == NodesTyped(AllTriples(Docs), a)
                    B == NodesTyped(AllTriples(Docs), b)
                IN  /\ {u.ns : u \in A} \cap {u.ns : u \in B} = {}
                    /\ A \cap B = {}

\* C18: for every publishable compound the compound document has a star
\* triple with an integer literal, and a literal triple for name, source,
\* status or definition exactly when that column is not null
C18_StarAndNonNullLiterals ==
    Written =>
        \A i \in CompoundIds :
            Publishable(snap, i) =>
                LET row == snap.chebi_compound[i]
                    T == Docs["compound.ttl"]
                IN  /\ \E t \in T :
                          /\ t[1] = chebi(i)
                          /\ t[2] = Uri("relation", << "star" >>)
                          /\ IsLiteral(t[3])
                          /\ t[3].lit \in Int
                    /\ \A c \in {"name", "source", "status", "definition"} :
                          (\E t \in T : /\ t[1] = chebi(i)
                                        /\ t[2] = Uri("relation", << c >>)
                                        /\ IsLiteral(t[3]))
                              <=> ~isna(row[c])

\* C19: for every name row of a publishable compound the name document has
\* a node under the per-name URI typed OtherName and a has-name edge from
\* the compound to it
C19_OtherNameNodePerName ==
    Written =>
        \A r \in Rows(snap.chebi_name) :
            Publishable(snap, r.compound_id) =>
                LET n == Uri("chebi_name", Str(r.id))
                IN  /\ << n, RdfType, Uri("node", << "OtherName" >>) >>
                          \in Docs["name.ttl"]
                    /\ << chebi(r.compound_id),
                           Uri("relation", << "HAS_NAME" >>), n >>
                          \in Docs["name.ttl"]

\* C20: an inchi row of a publishable compound from whose InChI no key is
\* derived puts no InChI node and no edge from the compound into the InChI
\* document
C20_NoInchiNodeWithoutKey ==
    Written =>
        \A r \in Rows(snap.chebi_inchi) :
            (Publishable(snap, r.compound_id) /\ isna(InchiToInchiKey(r.inchi))) =>
                /\ ~Mentions(Docs["inchi.ttl"], chebi(r.compound_id))
                /\ ~Mentions(Docs["inchi.ttl"],
                             Uri("inchi", StrOf(InchiToInchiKey(r.inchi))))

====
